---- MODULE Spec2Model ----
(***************************************************************************)
(* Flight emulation core of the drone simulator                            *)
(* (client/static/drone_sender.js, second IIFE, and the handlers of        *)
(* client/static/ui.js that write the shared state object).                *)
(*                                                                         *)
(* The JavaScript code computes in IEEE doubles.  The model computes in    *)
(* integers at a fixed resolution:                                         *)
(*   latitude, longitude      1e-7 degree                                  *)
(*   distances                centimetre                                   *)
(*   altitude                 millimetre                                   *)
(*   speeds, accelerations    mm/s, mm/s^2                                 *)
(*   PID integral             mm*s                                         *)
(*   engine speed             1/100 rpm                                    *)
(*   battery level, temp.     1e-6 percent, 1e-6 degree Celsius            *)
(*   GPS quality              1e-6                                         *)
(*   flight time              millisecond                                  *)
(*   Math.random() - 0.5      1/1000                                       *)
(* All intermediate products stay below 2^31.                              *)
(***************************************************************************)
EXTENDS Integers, Sequences, FiniteSets, TLC

\* ------------------------------------------------------------------------
\* Integer arithmetic helpers
\* ------------------------------------------------------------------------
Abs(x) == IF x < 0 THEN -x ELSE x

Max(a, b) == IF a >= b THEN a ELSE b

Min(a, b) == IF a <= b THEN a ELSE b

\* a / b rounded to the nearest integer, halves away from zero (b > 0).
RDiv(a, b) == IF a >= 0 THEN (a + b \div 2) \div b ELSE -((b \div 2 - a) \div b)

\* a / b truncated toward zero (b > 0).
TDiv(a, b) == IF a >= 0 THEN a \div b ELSE -((-a) \div b)

RECURSIVE Newton(_, _)
Newton(n, x) ==
    LET y == (x + n \div x) \div 2
    IN  IF y >= x THEN x ELSE Newton(n, y)

\* floor(sqrt(n)) for 0 <= n < 2^31
ISqrt(n) ==
    IF n <= 0 THEN 0
    ELSE Newton(n, IF n < 65536 THEN 256 ELSE IF n < 16777216 THEN 4096 ELSE 46341)

\* sqrt(a^2 + b^2); the operands are scaled down first when their squares
\* would not fit.
Hypot(a, b) ==
    LET m == Max(Abs(a), Abs(b))
        S == m \div 30000 + 1
    IN  IF m <= 30000 THEN ISqrt(a * a + b * b)
        ELSE S * ISqrt(TDiv(a, S) * TDiv(a, S) + TDiv(b, S) * TDiv(b, S))

\* a * b / c for |a| up to 2^31, 0 <= b <= 20000, c > 0; a and c are scaled
\* by the same factor when a * b would not fit.
MulDiv(a, b, c) ==
    LET S == Abs(a) \div 100000 + 1
    IN  IF S = 1 THEN RDiv(a * b, c)
        ELSE RDiv(TDiv(a, S) * b, Max(1, c \div S))

\* Math.cos of a latitude given in 1e-7 degree, in 1e-4 (Taylor series to
\* the 8th power; latitudes up to 90 degrees).
CosLat(lat) ==
    LET x  == RDiv(RDiv(Abs(lat), 10000) * 17453, 100000)  \* 1e-4 rad
        X  == RDiv(x * x, 10000)                           \* x^2, 1e-4
        X2 == RDiv(X * X, 10000)                           \* x^4, 1e-4
        X3 == RDiv(X2 * X, 10000)                          \* x^6, 1e-4
        X4 == RDiv(RDiv(X2, 10) * RDiv(X2, 10), 100)       \* x^8, 1e-4
    IN  10000 - RDiv(X, 2) + RDiv(X2, 24) - RDiv(X3, 720) + RDiv(X4, 40320)

\* Math.exp(u) for u in [0, 1] given in 1e-4, in 1e-4 (Taylor series).
RECURSIVE ExpTerms(_, _, _)
ExpTerms(u, term, k) ==
    IF k > 9 \/ term = 0 THEN 0
    ELSE term + ExpTerms(u, RDiv(term * u, k * 10000), k + 1)

Exp4(u) == ExpTerms(u, 10000, 1)

clamp(value, min, max) == Max(min, Min(max, value))

\* ------------------------------------------------------------------------
\* Program constants (drone_sender.js), in the model's units
\* ------------------------------------------------------------------------
maxAcceleration == 5000        \* 5 m/s^2
minSpeed == 500                \* 0.5 m/s
maxIntegral == 10000           \* 10 m*s
Kp_alt == 40                   \* 0.40, in 1/100
Ki_alt == 5                    \* 0.05, in 1/100
Kd_alt == 15                   \* 0.15, in 1/100
dt == 100                      \* updateFlightPhysics(0.1): 0.1 s, in ms
ReachRadius == 1000            \* "d < 10": 10 m
FilterSpacing == 500           \* "> 5": 5 m
safetyMargin == 1000           \* 10 m
maxDeceleration == 2           \* m/s^2
MaxVerticalAccel == 3000       \* clamp(verticalAccel, -3, 3)
CrashRPM == 800000             \* engineRPM > 8000
HotRPM == 300000               \* engineRPM > 3000
IdleRPM == 200000              \* 2000 rpm
DefaultCruiseAltitude == 100000   \* 100 m
DefaultSpeedKmh == 50
GpsFull == 1000000             \* gpsQuality 1
GpsFloorJam == 100000          \* 0.1
GpsFloorIdle == 800000         \* 0.8
GoodGps == 800000              \* gpsQuality > 0.8: "Good", 10 satellites
FairGps == 500000              \* gpsQuality > 0.5: "Fair", 6 satellites
GpsRecovery == 5000            \* 0.005
BatteryFull == 100000000       \* 100 percent
TempMin == 30000000            \* 30 C
TempMax == 60000000            \* 60 C
NudgeStep == 1000              \* 0.0001 degree
AltNudge == 5000               \* 5 m

Pt(la, lo) == [lat |-> la, lng |-> lo]

\* km/h to mm/s: v / 3.6
KmhToMms(v) == RDiv(v * 2500, 9)

\* "let v = e in F(v)" with e evaluated once.
Bind(e, F(_)) == CHOOSE y \in {F(v) : v \in {e}} : TRUE

\* ------------------------------------------------------------------------
\* computeDistance (drone_sender.js 131-139): haversine distance in cm.
\* For the separations the navigator compares with its thresholds the
\* haversine form equals R * sqrt(dLat^2 + cos(lat1) cos(lat2) dLon^2) to
\* within the model's resolution; one 1e-7 degree of arc is 1.11195 cm on
\* the sphere of radius 6371000 m.  Far separations are evaluated by the
\* same form at a coarser scale S.
\* ------------------------------------------------------------------------
ArcToCm(h) == h + (h \div 100000) * 11195 + RDiv((h % 100000) * 11195, 100000)

ScaledArc(dLat, dLon, c, S) ==
    Bind(TDiv(dLat, S), LAMBDA y :
    Bind(RDiv(TDiv(dLon, S) * c, 10000), LAMBDA x :
         S * ISqrt(x * x + y * y)))

computeDistance(a, b) ==
    Bind(ScaledArc(b.lat - a.lat, b.lng - a.lng,
                   ISqrt(CosLat(a.lat) * CosLat(b.lat)),
                   Max(Abs(b.lat - a.lat), Abs(b.lng - a.lng)) \div 30000 + 1),
         ArcToCm)

\* The filter with each point compared with the first point kept.
RECURSIVE filterFromFirst(_, _)
filterFromFirst(route, filtered) ==
    IF route = <<>> THEN filtered
    ELSE IF filtered = <<>>
            \/ computeDistance(Head(route), filtered[1]) > FilterSpacing
         THEN filterFromFirst(Tail(route), Append(filtered, Head(route)))
         ELSE filterFromFirst(Tail(route), filtered)

\* filterRoute (drone_sender.js 57-65): keep a point when it is the first
\* or lies more than 5 m from the last point kept.
RECURSIVE filterFrom(_, _)
filterFrom(route, filtered) ==
    IF route = <<>> THEN filtered
    ELSE IF filtered = <<>>
            \/ computeDistance(Head(route), filtered[Len(filtered)]) > FilterSpacing
         THEN filterFrom(Tail(route), Append(filtered, Head(route)))
         ELSE filterFrom(Tail(route), filtered)

\* The filter with each point compared with the point before it in the
\* input, kept or not.
filterRouteByNeighbour(route) ==
    LET F[k \in 0..Len(route)] ==
            IF k = 0 THEN <<>>
            ELSE IF k = 1 \/ computeDistance(route[k], route[k - 1]) > FilterSpacing
                 THEN Append(F[k - 1], route[k])
                 ELSE F[k - 1]
    IN  F[Len(route)]

filterRoute(route) == filterFrom(route, <<>>)

\* getVirtualTarget (drone_sender.js 117-128).  (cur - wp) * ratio with
\* ratio = (d - brakingDistance - safetyMargin) / d is evaluated as
\* delta - delta * (brakingDistance + safetyMargin) / d.
getVirtualTarget(currentPos, waypoint, brakingDistance, margin) ==
    Bind(computeDistance(currentPos, waypoint), LAMBDA d :
         IF d > brakingDistance + margin
         THEN Pt(waypoint.lat + (currentPos.lat - waypoint.lat)
                     - MulDiv(currentPos.lat - waypoint.lat, brakingDistance + margin, d),
                 waypoint.lng + (currentPos.lng - waypoint.lng)
                     - MulDiv(currentPos.lng - waypoint.lng, brakingDistance + margin, d))
         ELSE waypoint)

\* Math.atan2(dLat, dLng) followed by cos and sin, times speed: the vector
\* of length speed along the raw (lat, lng) difference.  atan2(0, 0) = 0.
Normalised(v, m) ==
    IF m > 30000 THEN TDiv(v, m \div 30000 + 1) ELSE RDiv(v * 30000, Max(1, m))

Along(dLat, dLng, speed) ==
    Bind(Max(Abs(dLat), Abs(dLng)), LAMBDA m :
    Bind(Normalised(dLat, m), LAMBDA na :
    Bind(Normalised(dLng, m), LAMBDA nb :
    Bind(ISqrt(na * na + nb * nb), LAMBDA h :
         IF m = 0 THEN [x |-> speed, y |-> 0]
         ELSE [x |-> RDiv(speed * nb, h), y |-> RDiv(speed * na, h)]))))

\* Math.cos / Math.sin of a wind direction in degrees (the UI offers the
\* multiples of 45), in 1e-4.
CosDeg(d) == <<10000, 7071, 0, -7071, -10000, -7071, 0, 7071>>[((d \div 45) % 8) + 1]

SinDeg(d) == <<0, 7071, 10000, 7071, 0, -7071, -10000, -7071>>[((d \div 45) % 8) + 1]

\* ------------------------------------------------------------------------
\* State
\* ------------------------------------------------------------------------
VARIABLES
    state,             \* the shared state object (drone_sender.js 72-105)
    altErrorIntegral,  \* PID integral term
    lastAltError,      \* PID previous error
    sliders,           \* values of the UI's parameter sliders (ui.js 138-145)
    threw,             \* the last firing of the tick driver ended in an uncaught TypeError
    modeLog,           \* the distinct values state.mode has taken, in order
    ticks,             \* firings of the tick driver so far
    cmds,              \* commands issued so far
    op,                \* the operation that made the last step
    prev,              \* the vehicle and its controller before the last step
    arg,               \* the route handed to setRoute by the last step, else null
    sent               \* the record handed to sendFlightData by the last step, else null

vars ==
    <<state, altErrorIntegral, lastAltError, sliders, threw, modeLog, ticks, cmds, op, prev,
      arg, sent>>

\* The fields of the vehicle and of its controller.
core == [state |-> state, altErrorIntegral |-> altErrorIntegral, lastAltError |-> lastAltError]

\* null is the empty sequence, a value v is <<v>>.
Null == <<>>

Some(v) == <<v>>

IsNull(o) == o = <<>>

Val(o) == o[1]

StartPosition == Pt(557522000, 376156000)     \* { lat: 55.7522, lng: 37.6156 }

ResetPosition == Pt(356895000, 1396917000)    \* { lat: 35.6895, lng: 139.6917 }

InitialState ==
    [ position           |-> StartPosition,
      altitude           |-> 0,
      targetAltitude     |-> 0,
      verticalSpeed      |-> 0,
      homePosition       |-> Null,
      flightStarted      |-> FALSE,
      route              |-> <<>>,
      aliased            |-> {},      \* indices i with route[i] the very object state.position
      waypointIndex      |-> 0,
      vx                 |-> 0,
      vy                 |-> 0,
      horizontalSpeed    |-> KmhToMms(DefaultSpeedKmh),
      timeMultiplier     |-> 100,
      fullFlightTime     |-> 30,
      altStability       |-> 10,      \* in 1/10
      hoverMode          |-> FALSE,
      repeatMission      |-> FALSE,
      wind               |-> [speed |-> 0, direction |-> 0],
      engineRPM          |-> IdleRPM,
      batteryLevel       |-> BatteryFull,
      batteryTemperature |-> TempMin,
      flightTime         |-> 0,
      totalDistance      |-> 0,
      mode               |-> "onGround",
      cruiseAltitude     |-> DefaultCruiseAltitude,
      jamZone            |-> Null,
      gpsQuality         |-> GpsFull,
      crashed            |-> FALSE,
      desiredSpeed       |-> Null ]

InitialSliders ==
    [speed |-> 50, multiplier |-> 10, fullFlightTime |-> 30, altStability |-> 10]

\* route[i] of the code (0-based)
WP(s, i) == s.route[i + 1]

\* A write to state.position.lat / .lng: every route entry that is the same
\* object changes with it.
MovePosition(s, p) ==
    [s EXCEPT !.position = p,
              !.route = [i \in 1..Len(s.route) |-> IF i \in s.aliased THEN p ELSE s.route[i]]]

\* state.route = filterRoute(state.route): the entries kept are the same
\* objects.  Only a two-point route holds aliased entries, and filtering
\* can drop only its second point.
Refilter(s) ==
    Bind(filterRoute(s.route), LAMBDA f :
         [s EXCEPT !.route = f, !.aliased = {i \in s.aliased : i <= Len(f)}])

\* ------------------------------------------------------------------------
\* updateFlightPhysics (drone_sender.js 142-328)
\* ------------------------------------------------------------------------

\* The guard of the horizontal-movement block without the hover test.
NavActiveIgnoresHover(s) == s.flightStarted /\ Len(s.route) > 0

\* The guard of the horizontal-movement block (147).
NavActive(s) == ~s.hoverMode /\ s.flightStarted /\ Len(s.route) > 0

\* Line 150 reads route[waypointIndex]; when that is undefined, line 151
\* (computeDistance reading b.lat) throws a TypeError.
NavThrows(s) ==
    NavActive(s) /\ s.mode # "landing" /\ s.waypointIndex >= Len(s.route)

\* Lines 171-187: the desired speed toward targetWaypoint at distance d.
brakingDistanceOf(baseSpeed) == RDiv(baseSpeed * baseSpeed, 2 * maxDeceleration * 10000)

DesiredSpeed(baseSpeed, currentPos, targetWaypoint, d) ==
    IF d >= ReachRadius
    THEN Bind(brakingDistanceOf(baseSpeed) + safetyMargin, LAMBDA K :
         Bind(computeDistance(currentPos,
                              getVirtualTarget(currentPos, targetWaypoint,
                                               brakingDistanceOf(baseSpeed), safetyMargin)),
              LAMBDA distanceToVirtual :
                  Max(minSpeed,
                      IF distanceToVirtual < K
                      THEN RDiv(baseSpeed * distanceToVirtual, K)
                      ELSE baseSpeed)))
    ELSE baseSpeed

\* Lines 192-198: the acceleration (ax0, ay0) limited to maxAcceleration.
LimitAcceleration(ax0, ay0) ==
    Bind(Hypot(ax0, ay0), LAMBDA aMag :
         IF aMag > maxAcceleration
         THEN [x |-> RDiv(ax0 * maxAcceleration, aMag), y |-> RDiv(ay0 * maxAcceleration, aMag)]
         ELSE [x |-> ax0, y |-> ay0])

\* Lines 201-204: the wind as a velocity vector.
WindVelocity(wind) ==
    [x |-> RDiv(CosDeg(wind.direction) * KmhToMms(wind.speed), 10000),
     y |-> RDiv(SinDeg(wind.direction) * KmhToMms(wind.speed), 10000)]

\* Lines 207-208: the position moved by the velocity (totalVx, totalVy)
\* over dt; the longitude step uses the latitude already moved.
Advance(pos, totalVx, totalVy) ==
    Bind(pos.lat + RDiv(totalVy * dt, 11132), LAMBDA lat1 :
         Pt(lat1, pos.lng + RDiv(RDiv(totalVx * dt * 100, 11132) * 100, CosLat(lat1))))

\* Steering that stores the wind in the velocity.
SteerStoresWind(s, targetWaypoint, desiredSpeed) ==
    Bind(Along(targetWaypoint.lat - s.position.lat,
               targetWaypoint.lng - s.position.lng, desiredSpeed), LAMBDA desired :
    Bind(LimitAcceleration(desired.x - s.vx, desired.y - s.vy), LAMBDA a :
    Bind(WindVelocity(s.wind), LAMBDA w :
    Bind([x |-> s.vx + RDiv(a.x * dt, 1000) + w.x,
          y |-> s.vy + RDiv(a.y * dt, 1000) + w.y], LAMBDA v :
         MovePosition([s EXCEPT !.vx = v.x, !.vy = v.y],
                      Advance(s.position, v.x, v.y))))))

\* Lines 189-208 and 213-232: turn the velocity toward targetWaypoint under
\* the acceleration limit, then move the position by velocity plus wind.
Steer(s, targetWaypoint, desiredSpeed) ==
    Bind(Along(targetWaypoint.lat - s.position.lat,
               targetWaypoint.lng - s.position.lng, desiredSpeed), LAMBDA desired :
    Bind(LimitAcceleration(desired.x - s.vx, desired.y - s.vy), LAMBDA a :
    Bind(WindVelocity(s.wind), LAMBDA w :
    Bind([x |-> s.vx + RDiv(a.x * dt, 1000), y |-> s.vy + RDiv(a.y * dt, 1000)], LAMBDA v :
         MovePosition([s EXCEPT !.vx = v.x, !.vy = v.y],
                      Advance(s.position, v.x + w.x, v.y + w.y))))))

\* The end of the route with a repeat that restarts at index 0.
RouteEndRepeatsFromZero(s, tw0, d0) ==
    IF s.repeatMission /\ Len(s.route) > 1
    THEN [s |-> [s EXCEPT
                   !.route = IF ~IsNull(s.homePosition)
                             THEN <<s.position, Val(s.homePosition)>>
                             ELSE <<s.position, s.route[1]>>,
                   !.aliased = IF IsNull(s.homePosition) /\ 1 \in s.aliased
                               THEN {1, 2} ELSE {1},
                   !.waypointIndex = 0],
          tw |-> tw0, d |-> d0]
    ELSE [s |-> [s EXCEPT !.waypointIndex = s.waypointIndex + 1, !.mode = "landing",
                          !.targetAltitude = 0],
          tw |-> s.route[Len(s.route)],
          d |-> computeDistance(s.position, s.route[Len(s.route)])]

\* The end of the route without the switch to landing.
RouteEndNoLanding(s, tw0, d0) ==
    IF s.repeatMission /\ Len(s.route) > 1
    THEN [s |-> [s EXCEPT
                   !.route = IF ~IsNull(s.homePosition)
                             THEN <<s.position, Val(s.homePosition)>>
                             ELSE <<s.position, s.route[1]>>,
                   !.aliased = IF IsNull(s.homePosition) /\ 1 \in s.aliased
                               THEN {1, 2} ELSE {1},
                   !.waypointIndex = 1],
          tw |-> tw0, d |-> d0]
    ELSE [s |-> [s EXCEPT !.waypointIndex = s.waypointIndex + 1],
          tw |-> s.route[Len(s.route)],
          d |-> computeDistance(s.position, s.route[Len(s.route)])]

\* Lines 154-165: the final waypoint was consumed.
RouteEnd(s, tw0, d0) ==
    IF s.repeatMission /\ Len(s.route) > 1
    THEN [s |-> [s EXCEPT
                   !.route = IF ~IsNull(s.homePosition)
                             THEN <<s.position, Val(s.homePosition)>>
                             ELSE <<s.position, s.route[1]>>,
                   !.aliased = IF IsNull(s.homePosition) /\ 1 \in s.aliased
                               THEN {1, 2} ELSE {1},
                   !.waypointIndex = 1],
          tw |-> tw0, d |-> d0]
    ELSE [s |-> [s EXCEPT !.waypointIndex = s.waypointIndex + 1, !.mode = "landing",
                          !.targetAltitude = 0],
          tw |-> s.route[Len(s.route)],
          d |-> computeDistance(s.position, s.route[Len(s.route)])]

\* Lines 150-170: waypoint sequencing.  Yields the state after it and the
\* waypoint and distance the rest of the block steers by.
Sequencing(s) ==
    Bind(computeDistance(s.position, WP(s, s.waypointIndex)), LAMBDA d0 :
         IF d0 < ReachRadius
         THEN IF s.waypointIndex + 1 >= Len(s.route)
              THEN RouteEnd(s, WP(s, s.waypointIndex), d0)
              ELSE [s |-> [s EXCEPT !.waypointIndex = s.waypointIndex + 1],
                    tw |-> WP(s, s.waypointIndex + 1),
                    d |-> computeDistance(s.position, WP(s, s.waypointIndex + 1))]
         ELSE [s |-> s, tw |-> WP(s, s.waypointIndex), d |-> d0])

\* Lines 147-234: horizontal movement (when line 151 does not throw).
Navigator(s) ==
    IF ~NavActive(s) THEN s
    ELSE IF s.mode # "landing"
    THEN Bind(Sequencing(s), LAMBDA q :
         Bind(DesiredSpeed(s.horizontalSpeed, s.position, q.tw, q.d), LAMBDA desiredSpeed :
         Bind([q.s EXCEPT !.desiredSpeed = Some(desiredSpeed)], LAMBDA s1 :
              Steer(s1, q.tw, desiredSpeed))))
    ELSE Steer(s, s.route[Len(s.route)], s.horizontalSpeed)

\* Ground contact that lands the vehicle whatever the engine speed.
TouchdownNeverCrashes(s) ==
    [s EXCEPT !.targetAltitude = 0, !.altitude = 0, !.verticalSpeed = 0,
              !.mode = "onGround", !.flightStarted = FALSE]

\* Ground contact with the crash threshold taken as the idle engine speed.
TouchdownIdleThreshold(s) ==
    IF s.engineRPM > IdleRPM
    THEN [s EXCEPT !.targetAltitude = 0, !.crashed = TRUE]
    ELSE [s EXCEPT !.targetAltitude = 0, !.altitude = 0, !.verticalSpeed = 0,
                   !.mode = "onGround", !.flightStarted = FALSE]

\* Ground contact that leaves the flight active.
TouchdownStaysActive(s) ==
    IF s.engineRPM > CrashRPM
    THEN [s EXCEPT !.targetAltitude = 0, !.crashed = TRUE]
    ELSE [s EXCEPT !.targetAltitude = 0, !.altitude = 0, !.verticalSpeed = 0,
                   !.mode = "onGround"]

\* Lines 248-259: ground contact while landing.
Touchdown(s) ==
    IF s.engineRPM > CrashRPM
    THEN [s EXCEPT !.targetAltitude = 0, !.crashed = TRUE]
    ELSE [s EXCEPT !.targetAltitude = 0, !.altitude = 0, !.verticalSpeed = 0,
                   !.mode = "onGround", !.flightStarted = FALSE]

\* Mode control that keeps the integral term at the switch to cruise.
ModeControlKeepsIntegral(s, integral) ==
    IF s.mode = "takeOff"
    THEN [s |-> [s EXCEPT
                   !.targetAltitude = IF s.altitude < 1000 THEN s.cruiseAltitude ELSE @,
                   !.mode = IF 100 * s.altitude >= 95 * s.cruiseAltitude THEN "cruise" ELSE @],
          integral |-> integral]
    ELSE IF s.mode = "landing"
    THEN [s |-> IF s.altitude <= 1000 THEN Touchdown(s) ELSE [s EXCEPT !.targetAltitude = 0],
          integral |-> integral]
    ELSE [s |-> s, integral |-> integral]

\* Mode control that sets no target altitude while landing.
ModeControlKeepsTarget(s, integral) ==
    IF s.mode = "takeOff"
    THEN [s |-> [s EXCEPT
                   !.targetAltitude = IF s.altitude < 1000 THEN s.cruiseAltitude ELSE @,
                   !.mode = IF 100 * s.altitude >= 95 * s.cruiseAltitude THEN "cruise" ELSE @],
          integral |-> IF 100 * s.altitude >= 95 * s.cruiseAltitude THEN 0 ELSE integral]
    ELSE IF s.mode = "landing"
    THEN [s |-> IF s.altitude <= 1000 THEN Touchdown(s) ELSE s,
          integral |-> integral]
    ELSE [s |-> s, integral |-> integral]

\* Lines 237-260: mode-dependent vertical targets and the mode switches.
\* Yields the state and the integral term.
ModeControl(s, integral) ==
    IF s.mode = "takeOff"
    THEN [s |-> [s EXCEPT
                   !.targetAltitude = IF s.altitude < 1000 THEN s.cruiseAltitude ELSE @,
                   !.mode = IF 100 * s.altitude >= 95 * s.cruiseAltitude THEN "cruise" ELSE @],
          integral |-> IF 100 * s.altitude >= 95 * s.cruiseAltitude THEN 0 ELSE integral]
    ELSE IF s.mode = "landing"
    THEN [s |-> IF s.altitude <= 1000 THEN Touchdown(s) ELSE [s EXCEPT !.targetAltitude = 0],
          integral |-> integral]
    ELSE [s |-> s, integral |-> integral]

\* Lines 264-272: the PID output, with the wind disturbance, clamped.
\* r is Math.random() - 0.5 in 1/1000.
PidAccel(altError, integ, lastError, windSpeed, r) ==
    clamp(RDiv(Kp_alt * altError + Ki_alt * integ
               + Kd_alt * TDiv((altError - lastError) * 1000, dt), 100)
          + RDiv(r * windSpeed, 20),
          -MaxVerticalAccel, MaxVerticalAccel)

\* The vertical motion without the decay of the vertical speed.
ClimbUndamped(s, verticalAccel) ==
    Bind(s.verticalSpeed + RDiv(verticalAccel * dt, 1000), LAMBDA vs :
         IF s.altitude + RDiv(vs * dt, 1000) < 0
         THEN [s EXCEPT !.altitude = 0, !.verticalSpeed = 0]
         ELSE [s EXCEPT !.altitude = s.altitude + RDiv(vs * dt, 1000), !.verticalSpeed = vs])

\* Lines 273-278: vertical speed and altitude, floored at the ground.
Climb(s, verticalAccel) ==
    Bind(RDiv(9 * s.verticalSpeed, 10) + RDiv(verticalAccel * dt, 1000), LAMBDA vs :
         IF s.altitude + RDiv(vs * dt, 1000) < 0
         THEN [s EXCEPT !.altitude = 0, !.verticalSpeed = 0]
         ELSE [s EXCEPT !.altitude = s.altitude + RDiv(vs * dt, 1000), !.verticalSpeed = vs])

\* The altitude PID without the clamp of the integral term.
VerticalControlNoWindupClamp(s, integral, lastError, r) ==
    Bind(s.targetAltitude - s.altitude, LAMBDA altError :
    Bind(integral + RDiv(altError * dt, 1000), LAMBDA integ :
    Bind(PidAccel(altError, integ, lastError, s.wind.speed, r), LAMBDA verticalAccel :
         [s |-> Climb(s, verticalAccel), integral |-> integ, lastError |-> altError,
          verticalAccel |-> verticalAccel])))

\* Lines 264-278: the altitude PID.  Yields the state, the PID memory and
\* the commanded vertical acceleration.
VerticalControl(s, integral, lastError, r) ==
    Bind(s.targetAltitude - s.altitude, LAMBDA altError :
    Bind(clamp(integral + RDiv(altError * dt, 1000), -maxIntegral, maxIntegral), LAMBDA integ :
    Bind(PidAccel(altError, integ, lastError, s.wind.speed, r), LAMBDA verticalAccel :
         [s |-> Climb(s, verticalAccel), integral |-> integ, lastError |-> altError,
          verticalAccel |-> verticalAccel])))

\* Line 284: 1.5 * exp((radius - dJam) / radius) - 1, in 1e-4.
ExpFactor(radius, dJam) ==
    RDiv(15 * Exp4(RDiv((radius - dJam) * 10000, radius)), 10) - 10000

\* Lines 285-292: the crash at the centre of the zone.
JamCrash(s) ==
    [s EXCEPT !.crashed = TRUE, !.flightStarted = FALSE,
              !.vx = 0, !.vy = 0, !.verticalSpeed = -5000]

\* The jam errors with GPS quality floored at 0 in place of 0.1.
JamNoiseNoFloor(s, n, expFactor) ==
    MovePosition([s EXCEPT !.vx = s.vx + n,
                           !.vy = s.vy + n,
                           !.verticalSpeed = s.verticalSpeed + n,
                           !.altitude = s.altitude + 2 * n,
                           !.engineRPM = s.engineRPM + 10 * n,
                           !.gpsQuality = clamp(s.gpsQuality - 10 * expFactor, 0, GpsFull)],
                 Pt(s.position.lat + 10 * n, s.position.lng + 10 * n))

\* Lines 294-302: the errors put into every parameter.  n is
\* (Math.random() - 0.5) * expFactor in 1e-3; the code draws Math.random()
\* once per parameter, the model takes the seven draws equal.
JamNoise(s, n, expFactor) ==
    MovePosition([s EXCEPT !.vx = s.vx + n,
                           !.vy = s.vy + n,
                           !.verticalSpeed = s.verticalSpeed + n,
                           !.altitude = s.altitude + 2 * n,
                           !.engineRPM = s.engineRPM + 10 * n,
                           !.gpsQuality = clamp(s.gpsQuality - 10 * expFactor,
                                                GpsFloorJam, GpsFull)],
                 Pt(s.position.lat + 10 * n, s.position.lng + 10 * n))

\* The jam block with the crash confined to a vehicle in flight.
JamSectionInFlightOnly(s, r) ==
    IF IsNull(s.jamZone)
    THEN [s EXCEPT !.gpsQuality = clamp(s.gpsQuality + r, GpsFloorIdle, GpsFull)]
    ELSE Bind(computeDistance(s.position, Val(s.jamZone).center), LAMBDA dJam :
         IF dJam < Val(s.jamZone).radius
         THEN Bind(ExpFactor(Val(s.jamZone).radius, dJam), LAMBDA expFactor :
              Bind(IF s.flightStarted /\ 10 * dJam < Val(s.jamZone).radius
                   THEN JamCrash(s) ELSE s, LAMBDA s1 :
                   JamNoise(s1, RDiv(r * expFactor, 10000), expFactor)))
         ELSE [s EXCEPT !.gpsQuality = clamp(s.gpsQuality + GpsRecovery, 0, GpsFull)])

\* Lines 281-308: jam zone interference and GPS quality.  r is
\* Math.random() - 0.5 in 1/1000.
JamSection(s, r) ==
    IF IsNull(s.jamZone)
    THEN [s EXCEPT !.gpsQuality = clamp(s.gpsQuality + r, GpsFloorIdle, GpsFull)]
    ELSE Bind(computeDistance(s.position, Val(s.jamZone).center), LAMBDA dJam :
         IF dJam < Val(s.jamZone).radius
         THEN Bind(ExpFactor(Val(s.jamZone).radius, dJam), LAMBDA expFactor :
              Bind(IF 10 * dJam < Val(s.jamZone).radius THEN JamCrash(s) ELSE s, LAMBDA s1 :
                   JamNoise(s1, RDiv(r * expFactor, 10000), expFactor)))
         ELSE [s EXCEPT !.gpsQuality = clamp(s.gpsQuality + GpsRecovery, 0, GpsFull)])

\* The engine model with the discharge added to the battery level.
EngineModelCharges(s, verticalAccel, prevPos) ==
    Bind(Abs(verticalAccel) + Hypot(s.vx, s.vy), LAMBDA totalLoad :
    Bind(s.engineRPM + RDiv(IdleRPM + 50 * totalLoad - s.engineRPM, 20), LAMBDA rpm :
         [s EXCEPT !.engineRPM = rpm,
                   !.batteryLevel = Max(0, s.batteryLevel + RDiv(totalLoad * dt, 100)),
                   !.batteryTemperature =
                       clamp(IF rpm > HotRPM
                             THEN s.batteryTemperature + RDiv(totalLoad * dt, 100)
                             ELSE s.batteryTemperature - 20 * dt,
                             TempMin, TempMax),
                   !.totalDistance = s.totalDistance + computeDistance(prevPos, s.position),
                   !.flightTime = IF s.flightStarted THEN s.flightTime + dt ELSE s.flightTime]))

\* Lines 311-327: engine speed, battery, distance and time counters.
EngineModel(s, verticalAccel, prevPos) ==
    Bind(Abs(verticalAccel) + Hypot(s.vx, s.vy), LAMBDA totalLoad :
    Bind(s.engineRPM + RDiv(IdleRPM + 50 * totalLoad - s.engineRPM, 20), LAMBDA rpm :
         [s EXCEPT !.engineRPM = rpm,
                   !.batteryLevel = Max(0, s.batteryLevel - RDiv(totalLoad * dt, 100)),
                   !.batteryTemperature =
                       clamp(IF rpm > HotRPM
                             THEN s.batteryTemperature + RDiv(totalLoad * dt, 100)
                             ELSE s.batteryTemperature - 20 * dt,
                             TempMin, TempMax),
                   !.totalDistance = s.totalDistance + computeDistance(prevPos, s.position),
                   !.flightTime = IF s.flightStarted THEN s.flightTime + dt ELSE s.flightTime]))

\* The state at the jam-zone check of a tick: after horizontal movement,
\* mode control and the altitude PID (lines 147-278).  navMode is the mode
\* the horizontal block left.
BeforeJam(s, integral, lastError, r1) ==
    Bind(Navigator(s), LAMBDA n :
    Bind(ModeControl(n, integral), LAMBDA m :
    Bind(VerticalControl(m.s, m.integral, lastError, r1), LAMBDA v :
         [s |-> v.s, integral |-> v.integral, lastError |-> v.lastError,
          verticalAccel |-> v.verticalAccel, navMode |-> n.mode])))

\* The tick without the early return on crashed.
updateFlightPhysicsNoCrashGuard(s, integral, lastError, r1, r2) ==
    IF NavThrows(s)
    THEN [s |-> s, integral |-> integral, lastError |-> lastError,
          threw |-> TRUE, navMode |-> s.mode]
    ELSE Bind(BeforeJam(s, integral, lastError, r1), LAMBDA v :
         Bind(JamSection(v.s, r2), LAMBDA j :
              [s |-> EngineModel(j, v.verticalAccel, s.position),
               integral |-> v.integral, lastError |-> v.lastError,
               threw |-> FALSE, navMode |-> v.navMode]))

\* updateFlightPhysics(dt).  r1 and r2 are the draws of Math.random() - 0.5
\* used by the PID disturbance and by the jam / GPS block.
updateFlightPhysics(s, integral, lastError, r1, r2) ==
    IF s.crashed
    THEN [s |-> s, integral |-> integral, lastError |-> lastError,
          threw |-> FALSE, navMode |-> s.mode]
    ELSE IF NavThrows(s)
    THEN [s |-> s, integral |-> integral, lastError |-> lastError,
          threw |-> TRUE, navMode |-> s.mode]
    ELSE Bind(BeforeJam(s, integral, lastError, r1), LAMBDA v :
         Bind(JamSection(v.s, r2), LAMBDA j :
              [s |-> EngineModel(j, v.verticalAccel, s.position),
               integral |-> v.integral, lastError |-> v.lastError,
               threw |-> FALSE, navMode |-> v.navMode]))

\* ------------------------------------------------------------------------
\* The tick driver's telemetry record (drone_sender.js 332-408)
\* ------------------------------------------------------------------------
\* Line 402: the GPS label of a quality.
GpsLabel(q) == IF q > GoodGps THEN "Good" ELSE IF q > FairGps THEN "Fair" ELSE "Poor"

\* Line 343: the satellite count of a quality.
SatelliteCount(q) == IF q > GoodGps THEN 10 ELSE IF q > FairGps THEN 6 ELSE 2

\* Lines 392-408: the numeric fields of the record, the GPS label and the
\* satellite count.
FlightData(s) ==
    [position           |-> s.position,
     altitude           |-> s.altitude,
     verticalSpeed      |-> s.verticalSpeed,
     engineRPM          |-> s.engineRPM,
     batteryLevel       |-> s.batteryLevel,
     batteryTemperature |-> s.batteryTemperature,
     flightTime         |-> s.flightTime,
     totalDistance      |-> s.totalDistance,
     gpsSignal          |-> GpsLabel(s.gpsQuality),
     satellites         |-> SatelliteCount(s.gpsQuality)]

\* ------------------------------------------------------------------------
\* window.FlightEmulation (drone_sender.js 411-501)
\* ------------------------------------------------------------------------
\* The start of a new flight with the counters left as they are.
NewFlightKeepsCounters(f) ==
    [f EXCEPT !.position = f.route[1], !.aliased = {},
              !.vx = 0, !.vy = 0, !.waypointIndex = 1,
              !.homePosition = IF IsNull(f.homePosition) THEN Some(f.route[1]) ELSE @,
              !.mode = "takeOff", !.crashed = FALSE]

\* Lines 416-426: the start of a new flight from the filtered route.
NewFlight(f) ==
    [f EXCEPT !.position = f.route[1], !.aliased = {},
              !.vx = 0, !.vy = 0, !.waypointIndex = 1,
              !.flightTime = 0, !.totalDistance = 0,
              !.homePosition = IF IsNull(f.homePosition) THEN Some(f.route[1]) ELSE @,
              !.mode = "takeOff", !.crashed = FALSE]

\* startFlight with the route check off by one: a one-point route passes.
startFlightAcceptsOnePoint(s, integral, lastError) ==
    IF Len(s.route) < 1
    THEN [s |-> s, integral |-> integral, lastError |-> lastError]
    ELSE Bind(Refilter(s), LAMBDA f :
         Bind(IF ~f.flightStarted THEN NewFlight(f) ELSE f, LAMBDA s1 :
              [s |-> [s1 EXCEPT !.flightStarted = TRUE, !.hoverMode = FALSE],
               integral |-> 0,
               lastError |-> s1.targetAltitude - s1.altitude]))

\* startFlight that begins a new flight whether or not one is active.
startFlightAlwaysRestarts(s, integral, lastError) ==
    IF Len(s.route) < 2
    THEN [s |-> s, integral |-> integral, lastError |-> lastError]
    ELSE Bind(Refilter(s), LAMBDA f :
         Bind(NewFlight(f), LAMBDA s1 :
              [s |-> [s1 EXCEPT !.flightStarted = TRUE, !.hoverMode = FALSE],
               integral |-> 0,
               lastError |-> s1.targetAltitude - s1.altitude]))

\* startFlight that clears the crashed flag of a flight already active.
startFlightClearsCrash(s, integral, lastError) ==
    IF Len(s.route) < 2
    THEN [s |-> s, integral |-> integral, lastError |-> lastError]
    ELSE Bind(Refilter(s), LAMBDA f :
         Bind(IF ~f.flightStarted THEN NewFlight(f) ELSE f, LAMBDA s1 :
              [s |-> [s1 EXCEPT !.flightStarted = TRUE, !.hoverMode = FALSE,
                                !.crashed = FALSE],
               integral |-> 0,
               lastError |-> s1.targetAltitude - s1.altitude]))

\* Lines 414-431.
startFlight(s, integral, lastError) ==
    IF Len(s.route) < 2
    THEN [s |-> s, integral |-> integral, lastError |-> lastError]
    ELSE Bind(Refilter(s), LAMBDA f :
         Bind(IF ~f.flightStarted THEN NewFlight(f) ELSE f, LAMBDA s1 :
              [s |-> [s1 EXCEPT !.flightStarted = TRUE, !.hoverMode = FALSE],
               integral |-> 0,
               lastError |-> s1.targetAltitude - s1.altitude]))

\* stopFlight that also puts the vehicle on the ground.
stopFlightGrounds(s) ==
    [s EXCEPT !.flightStarted = FALSE, !.route = <<>>, !.aliased = {}, !.waypointIndex = 0,
              !.mode = "onGround", !.altitude = 0]

stopFlight(s) ==
    [s EXCEPT !.flightStarted = FALSE, !.route = <<>>, !.aliased = {}, !.waypointIndex = 0]

setRoute(s, route) ==
    [s EXCEPT !.route = filterRoute(route), !.aliased = {}, !.waypointIndex = 0]

setHome(s) == [s EXCEPT !.homePosition = Some(s.position)]

\* takeOff that also clears the crash flag.
takeOffClearsCrash(s, integral, lastError) ==
    IF s.flightStarted
    THEN [s |-> s, integral |-> integral, lastError |-> lastError]
    ELSE [s |-> [s EXCEPT !.altitude = 0, !.targetAltitude = DefaultCruiseAltitude,
                          !.cruiseAltitude = DefaultCruiseAltitude, !.mode = "takeOff",
                          !.flightStarted = TRUE, !.hoverMode = FALSE, !.crashed = FALSE],
          integral |-> 0,
          lastError |-> DefaultCruiseAltitude - 0]

\* takeOff without the check that the vehicle is not yet in flight.
takeOffUnguarded(s, integral, lastError) ==
    [s |-> [s EXCEPT !.altitude = 0, !.targetAltitude = DefaultCruiseAltitude,
                     !.cruiseAltitude = DefaultCruiseAltitude, !.mode = "takeOff",
                     !.flightStarted = TRUE, !.hoverMode = FALSE],
     integral |-> 0,
     lastError |-> DefaultCruiseAltitude - 0]

takeOff(s, integral, lastError) ==
    IF s.flightStarted
    THEN [s |-> s, integral |-> integral, lastError |-> lastError]
    ELSE [s |-> [s EXCEPT !.altitude = 0, !.targetAltitude = DefaultCruiseAltitude,
                          !.cruiseAltitude = DefaultCruiseAltitude, !.mode = "takeOff",
                          !.flightStarted = TRUE, !.hoverMode = FALSE],
          integral |-> 0,
          lastError |-> DefaultCruiseAltitude - 0]

land(s) ==
    IF ~s.flightStarted THEN s
    ELSE [s EXCEPT !.mode = "landing", !.targetAltitude = 0, !.hoverMode = FALSE]

hover(s) == IF ~s.flightStarted THEN s ELSE [s EXCEPT !.hoverMode = TRUE]

\* updateParameters({ speed: v }) with v the slider's value in km/h
updateSpeed(s, v) == [s EXCEPT !.horizontalSpeed = KmhToMms(v)]

updateWind(s, speed, direction) ==
    [s EXCEPT !.wind = [speed |-> speed, direction |-> direction]]

setJamZone(s, zone) == [s EXCEPT !.jamZone = Some(zone)]

clearJamZone(s) == [s EXCEPT !.jamZone = Null]

setRepeat(s, val) == [s EXCEPT !.repeatMission = val]

\* ------------------------------------------------------------------------
\* Handlers of ui.js that write the state object directly
\* ------------------------------------------------------------------------
\* resetBtn.onclick (ui.js 282-311)
resetState(s, sl) ==
    [stopFlight(s) EXCEPT
        !.position = ResetPosition, !.altitude = 0, !.targetAltitude = 0,
        !.verticalSpeed = 0, !.homePosition = Null, !.flightStarted = FALSE,
        !.route = <<>>, !.aliased = {}, !.waypointIndex = 0,
        !.horizontalSpeed = KmhToMms(sl.speed), !.timeMultiplier = sl.multiplier,
        !.fullFlightTime = sl.fullFlightTime, !.altStability = sl.altStability,
        !.hoverMode = FALSE, !.crashed = FALSE]

\* north / south / east / west buttons (ui.js 314-329)
nudge(s, dLat, dLng) == MovePosition(s, Pt(s.position.lat + dLat, s.position.lng + dLng))

\* altUp / altDown buttons (ui.js 331-338)
altUp(s) == [s EXCEPT !.targetAltitude = s.targetAltitude + AltNudge]

altDown(s) == [s EXCEPT !.targetAltitude = Max(0, s.targetAltitude - AltNudge)]

\* ------------------------------------------------------------------------
\* Inputs and bounds
\* ------------------------------------------------------------------------
MaxCmds == 2          \* commands per behaviour (Spec)
MaxTicks == 2         \* ticks per behaviour (Spec)
E2EMaxTicks == 260    \* ticks of the end-to-end scenario (SpecE2E)
MissionMaxCmds == 6   \* commands per behaviour (SpecMission)
MissionMaxTicks == 2  \* ticks per behaviour (SpecMission)
CrashMaxCmds == 3     \* commands per behaviour (SpecCrash)
CrashMaxTicks == 2    \* ticks per behaviour (SpecCrash)
FilterMaxCmds == 2    \* commands per behaviour (SpecFilter)
JamMaxCmds == 2       \* commands per behaviour (SpecJam)
JamMaxTicks == 5      \* ticks per behaviour (SpecJam)
FlightMaxTicks == 340 \* ticks of the long flight (SpecFlight)
MaxRouteLen == 3      \* points per route handed to setRoute (SpecFilter)
HopsMaxTicks == 40    \* ticks of a flight over the short hops (SpecHops)
CountersMaxCmds == 4  \* commands per behaviour (SpecCounters)
CountersMaxTicks == 2 \* ticks per behaviour (SpecCounters)
HomeMaxCmds == 3      \* commands per behaviour (SpecHome)
HomeMaxTicks == 1     \* ticks per behaviour (SpecHome)
TakeoffSettle == 355  \* ticks from takeOff to within 1 m of 100 m, for good (SpecStep)
StepAt == 600         \* the tick after which the target is stepped (SpecStep)
StepSettle == 110     \* ticks from a 5 m step to within 1 m, for good (SpecStep)
StepMaxTicks == 800   \* ticks per behaviour (SpecStep)

\* Math.random() - 0.5, in 1/1000
Rand == {-500, 0, 500}

\* The draws that matter to the PID disturbance, (Math.random() - 0.5) *
\* 0.5 * (wind.speed / 10): with no wind every draw gives the same step.
DisturbanceDraws == IF state.wind.speed = 0 THEN {0} ELSE Rand

\* The draws of the jam / GPS block taken by the scenario specifications:
\* with no jam zone the draw only moves gpsQuality between 0.9995 and 1.
NoiseDraws == IF IsNull(state.jamZone) THEN {0} ELSE Rand

North(p, n) == Pt(p.lat + n, p.lng)

\* Routes handed to setRoute: two points 7.8 m apart; three points of which
\* the second lies 3.3 m from the first; a single point.
RouteShort == <<StartPosition, North(StartPosition, 700)>>

RouteDup == <<StartPosition, North(StartPosition, 300), North(StartPosition, 30000)>>

RouteOne == <<StartPosition>>

Routes == {RouteShort, RouteDup, RouteOne}

\* Three points 7.8 m apart on a meridian.
RouteHops == <<StartPosition, North(StartPosition, 700), North(StartPosition, 1400)>>

\* Points on a meridian 0 m, 3.3 m, 6.7 m and 11.1 m north of the start
\* position: neighbours are closer than 5 m, the others are not.
FilterPoints ==
    {StartPosition, North(StartPosition, 300), North(StartPosition, 600),
     North(StartPosition, 1000)}

\* Every route of at most MaxRouteLen of these points, in any order and
\* with repetitions.
RouteInputs == UNION {[1..n -> FilterPoints] : n \in 0..MaxRouteLen}

\* A route of 2.2 km due north of the start position.
LongRoute == <<StartPosition, North(StartPosition, 200000)>>

\* The speed slider at its maximum, in km/h.
FullSpeed == {100}

\* route = [(0,0), (0,0.001)]
E2ERoute == <<Pt(0, 0), Pt(0, 10000)>>

\* Jam zones of radius 100 m: centred on the start position, and 44.5 m
\* north of it.
JamZones == {[center |-> StartPosition, radius |-> 10000],
             [center |-> North(StartPosition, 4000), radius |-> 10000]}

\* A jam zone of radius 1000 m centred 150 m north of the start position.
JamWide == [center |-> North(StartPosition, 13500), radius |-> 100000]

Winds == {[speed |-> 20, direction |-> 90]}

\* Targets 7.8 m, 11.1 m, 33 m and 111 m north of the vehicle.
BrakeOffsets == {700, 1000, 3000, 10000}

SpeedChoices == {20}

Nudges == {<<NudgeStep, 0>>, <<-NudgeStep, 0>>, <<0, NudgeStep>>, <<0, -NudgeStep>>}

\* ------------------------------------------------------------------------
\* Actions
\* ------------------------------------------------------------------------
Init ==
    /\ state = InitialState
    /\ altErrorIntegral = 0
    /\ lastAltError = 0
    /\ sliders = InitialSliders
    /\ threw = FALSE
    /\ modeLog = <<"onGround">>
    /\ ticks = 0
    /\ cmds = 0
    /\ op = "init"
    /\ prev = [state |-> InitialState, altErrorIntegral |-> 0, lastAltError |-> 0]
    /\ arg = Null
    /\ sent = Null

Log(log, mode) == IF log[Len(log)] = mode THEN log ELSE Append(log, mode)

\* The command named name, leaving the vehicle in state s with the PID
\* memory given.
Command(name, s, integral, lastError) ==
    /\ state' = s
    /\ altErrorIntegral' = integral
    /\ lastAltError' = lastError
    /\ modeLog' = Log(modeLog, s.mode)
    /\ cmds' = cmds + 1
    /\ op' = name
    /\ prev' = core
    /\ arg' = Null
    /\ sent' = Null
    /\ UNCHANGED <<sliders, threw, ticks>>

\* One firing of the tick driver (setInterval callback, 330-409): the
\* physics update, then the record handed to sendFlightData; an exception
\* thrown by the update ends the callback before the record is sent.
Tick(r1, r2) ==
    \E u \in {updateFlightPhysics(state, altErrorIntegral, lastAltError, r1, r2)} :
        /\ state' = u.s
        /\ altErrorIntegral' = u.integral
        /\ lastAltError' = u.lastError
        /\ threw' = u.threw
        /\ modeLog' = Log(Log(modeLog, u.navMode), u.s.mode)
        /\ ticks' = ticks + 1
        /\ op' = "tick"
        /\ prev' = core
        /\ arg' = Null
        /\ sent' = IF u.threw THEN Null ELSE Some(FlightData(u.s))
        /\ UNCHANGED <<sliders, cmds>>

StartFlight ==
    \E u \in {startFlight(state, altErrorIntegral, lastAltError)} :
        Command("startFlight", u.s, u.integral, u.lastError)

StopFlight == Command("stopFlight", stopFlight(state), altErrorIntegral, lastAltError)

SetRoute(route) ==
    /\ state' = setRoute(state, route)
    /\ modeLog' = Log(modeLog, state.mode)
    /\ cmds' = cmds + 1
    /\ op' = "setRoute"
    /\ prev' = core
    /\ arg' = Some(route)
    /\ sent' = Null
    /\ UNCHANGED <<altErrorIntegral, lastAltError, sliders, threw, ticks>>

SetHome == Command("setHome", setHome(state), altErrorIntegral, lastAltError)

TakeOff ==
    \E u \in {takeOff(state, altErrorIntegral, lastAltError)} :
        Command("takeOff", u.s, u.integral, u.lastError)

Land == Command("land", land(state), altErrorIntegral, lastAltError)

Hover == Command("hover", hover(state), altErrorIntegral, lastAltError)

\* speedSlider input (ui.js 147-151)
SpeedSlider(v) ==
    /\ sliders' = [sliders EXCEPT !.speed = v]
    /\ state' = updateSpeed(state, v)
    /\ cmds' = cmds + 1
    /\ op' = "updateParameters"
    /\ prev' = core
    /\ arg' = Null
    /\ sent' = Null
    /\ UNCHANGED <<altErrorIntegral, lastAltError, threw, modeLog, ticks>>

UpdateWind(w) ==
    Command("updateWind", updateWind(state, w.speed, w.direction), altErrorIntegral, lastAltError)

SetJamZone(z) == Command("setJamZone", setJamZone(state, z), altErrorIntegral, lastAltError)

ClearJamZone == Command("clearJamZone", clearJamZone(state), altErrorIntegral, lastAltError)

SetRepeat(b) == Command("setRepeat", setRepeat(state, b), altErrorIntegral, lastAltError)

Reset == Command("reset", resetState(state, sliders), altErrorIntegral, lastAltError)

Nudge(dLat, dLng) == Command("nudge", nudge(state, dLat, dLng), altErrorIntegral, lastAltError)

AltUp == Command("altUp", altUp(state), altErrorIntegral, lastAltError)

AltDown == Command("altDown", altDown(state), altErrorIntegral, lastAltError)

\* Every command of the API and of the UI, and the tick driver, in any order.
Next ==
    \/ ticks < MaxTicks /\ \E r1 \in DisturbanceDraws, r2 \in Rand : Tick(r1, r2)
    \/ cmds < MaxCmds /\ \E r \in Routes : SetRoute(r)
    \/ cmds < MaxCmds /\ StartFlight
    \/ cmds < MaxCmds /\ StopFlight
    \/ cmds < MaxCmds /\ SetHome
    \/ cmds < MaxCmds /\ TakeOff
    \/ cmds < MaxCmds /\ Land
    \/ cmds < MaxCmds /\ Hover
    \/ cmds < MaxCmds /\ \E v \in SpeedChoices : SpeedSlider(v)
    \/ cmds < MaxCmds /\ \E w \in Winds : UpdateWind(w)
    \/ cmds < MaxCmds /\ \E z \in JamZones : SetJamZone(z)
    \/ cmds < MaxCmds /\ ClearJamZone
    \/ cmds < MaxCmds /\ \E b \in BOOLEAN : SetRepeat(b)
    \/ cmds < MaxCmds /\ Reset
    \/ cmds < MaxCmds /\ \E d \in Nudges : Nudge(d[1], d[2])
    \/ cmds < MaxCmds /\ AltUp
    \/ cmds < MaxCmds /\ AltDown

Spec == Init /\ [][Next]_vars

\* The end-to-end scenario: setRoute(E2ERoute), startFlight(), then ticks.
NextE2E ==
    \/ cmds = 0 /\ SetRoute(E2ERoute)
    \/ cmds = 1 /\ StartFlight
    \/ cmds = 2 /\ ticks < E2EMaxTicks
                /\ \E r1 \in DisturbanceDraws, r2 \in NoiseDraws : Tick(r1, r2)

SpecE2E == Init /\ [][NextE2E]_vars

\* The mission commands on the short route, to a greater depth.
NextMission ==
    \/ ticks < MissionMaxTicks /\ \E r1 \in DisturbanceDraws, r2 \in NoiseDraws : Tick(r1, r2)
    \/ cmds < MissionMaxCmds /\ SetRoute(RouteShort)
    \/ cmds < MissionMaxCmds /\ \E b \in BOOLEAN : SetRepeat(b)
    \/ cmds < MissionMaxCmds /\ StartFlight
    \/ cmds < MissionMaxCmds /\ StopFlight
    \/ cmds < MissionMaxCmds /\ TakeOff
    \/ cmds < MissionMaxCmds /\ Land

SpecMission == Init /\ [][NextMission]_vars

\* Crash and recovery: a jam zone, the flight commands and reset.
NextCrash ==
    \/ ticks < CrashMaxTicks /\ \E r1 \in DisturbanceDraws, r2 \in NoiseDraws : Tick(r1, r2)
    \/ cmds < CrashMaxCmds /\ \E z \in JamZones : SetJamZone(z)
    \/ cmds < CrashMaxCmds /\ SetRoute(RouteShort)
    \/ cmds < CrashMaxCmds /\ StartFlight
    \/ cmds < CrashMaxCmds /\ StopFlight
    \/ cmds < CrashMaxCmds /\ TakeOff
    \/ cmds < CrashMaxCmds /\ Land
    \/ cmds < CrashMaxCmds /\ Hover
    \/ cmds < CrashMaxCmds /\ Reset

SpecCrash == Init /\ [][NextCrash]_vars

\* Route filtering: setRoute on every route of RouteInputs before the
\* flight and during it, and startFlight.
NextFilter ==
    \/ cmds < FilterMaxCmds /\ (cmds = 0 \/ state.flightStarted)
                            /\ \E r \in RouteInputs : SetRoute(r)
    \/ cmds < FilterMaxCmds /\ StartFlight

SpecFilter == Init /\ [][NextFilter]_vars

\* Jamming: a vehicle on the ground, jam zones set and cleared, and ticks.
NextJam ==
    \/ ticks < JamMaxTicks /\ \E r1 \in DisturbanceDraws, r2 \in NoiseDraws : Tick(r1, r2)
    \/ cmds < JamMaxCmds /\ \E z \in JamZones \cup {JamWide} : SetJamZone(z)
    \/ cmds < JamMaxCmds /\ ClearJamZone

SpecJam == Init /\ [][NextJam]_vars

\* A long flight at full speed: setRoute(LongRoute), the speed slider, a jam
\* zone on the start position or none, startFlight, then ticks with one
\* land command at any moment.
NextFlight ==
    \/ cmds = 0 /\ SetRoute(LongRoute)
    \/ cmds = 1 /\ \E v \in FullSpeed : SpeedSlider(v)
    \/ cmds = 2 /\ SetJamZone([center |-> StartPosition, radius |-> 10000])
    \/ cmds = 2 /\ ClearJamZone
    \/ cmds = 3 /\ StartFlight
    \/ cmds = 4 /\ Land
    \/ cmds >= 4 /\ ticks < FlightMaxTicks
                 /\ \E r1 \in DisturbanceDraws, r2 \in NoiseDraws : Tick(r1, r2)

SpecFlight == Init /\ [][NextFlight]_vars

\* Flights over short hops: a route, the repeat switch, startFlight or
\* takeOff, then ticks.
NextHops ==
    \/ cmds = 0 /\ \E r \in {RouteHops, RouteShort, RouteOne} : SetRoute(r)
    \/ cmds = 1 /\ \E b \in BOOLEAN : SetRepeat(b)
    \/ cmds = 2 /\ StartFlight
    \/ cmds = 2 /\ TakeOff
    \/ cmds = 3 /\ ticks < HopsMaxTicks
                /\ \E r1 \in DisturbanceDraws, r2 \in NoiseDraws : Tick(r1, r2)

SpecHops == Init /\ [][NextHops]_vars

\* Altitude steps with no wind, no jam zone and no route: takeOff (target
\* 0 -> 100 m), ticks, after StepAt ticks a step of 5 m up or down or none,
\* then ticks.
NextStep ==
    \/ cmds = 0 /\ TakeOff
    \/ cmds = 1 /\ ticks = StepAt /\ AltUp
    \/ cmds = 1 /\ ticks = StepAt /\ AltDown
    \/ cmds >= 1 /\ ticks < StepMaxTicks
                 /\ \E r1 \in DisturbanceDraws, r2 \in NoiseDraws : Tick(r1, r2)

SpecStep == Init /\ [][NextStep]_vars

\* The flight counters: flights begun, stopped and begun again.
NextCounters ==
    \/ ticks < CountersMaxTicks
           /\ \E r1 \in DisturbanceDraws, r2 \in NoiseDraws : Tick(r1, r2)
    \/ cmds < CountersMaxCmds /\ SetRoute(RouteShort)
    \/ cmds < CountersMaxCmds /\ StartFlight
    \/ cmds < CountersMaxCmds /\ StopFlight
    \/ cmds < CountersMaxCmds /\ TakeOff
    \/ cmds < CountersMaxCmds /\ Reset

SpecCounters == Init /\ [][NextCounters]_vars

\* The home position: setHome, the position buttons, a flight and reset.
NextHome ==
    \/ ticks < HomeMaxTicks /\ \E r1 \in DisturbanceDraws, r2 \in NoiseDraws : Tick(r1, r2)
    \/ cmds < HomeMaxCmds /\ SetHome
    \/ cmds < HomeMaxCmds /\ \E d \in Nudges : Nudge(d[1], d[2])
    \/ cmds < HomeMaxCmds /\ SetRoute(RouteShort)
    \/ cmds < HomeMaxCmds /\ StartFlight
    \/ cmds < HomeMaxCmds /\ Reset

SpecHome == Init /\ [][NextHome]_vars

\* ------------------------------------------------------------------------
\* Properties
\* ------------------------------------------------------------------------
IsPrefix(a, b) == Len(a) <= Len(b) /\ \A i \in 1..Len(a) : a[i] = b[i]

\* C1: in the end-to-end scenario (route [(0,0),(0,0.001)], 50 km/h, no
\* wind, no jam zone, repeat off; setRoute, startFlight, then ticks only)
\* the distinct mode values are, in order, onGround, takeOff, cruise,
\* landing, onGround: at every moment the modes seen so far are a prefix of
\* that sequence, so landing is never entered from takeOff.
C1_E2EModeSequence ==
    IsPrefix(modeLog, <<"onGround", "takeOff", "cruise", "landing", "onGround">>)

\* C2: in the end-to-end scenario crashed is false in every state from
\* startFlight on, and once the vehicle is on the ground again its position
\* is within 10 m (1000 cm) of the final waypoint (0, 0.001).
C2_E2ENoCrashLandsAtWaypoint ==
    cmds = 2 =>
        /\ ~state.crashed
        /\ (ticks > 0 /\ state.mode = "onGround"
              => computeDistance(state.position, E2ERoute[2]) < 10 * 100)

\* C2 witness: the tick that grounds the vehicle again has run.
C2_Landed ==
    /\ cmds = 2 /\ op = "tick"
    /\ prev.state.mode = "landing" /\ state.mode = "onGround"
    /\ ~state.flightStarted /\ ~state.crashed

ModeEdges ==
    {<<"onGround", "takeOff">>, <<"takeOff", "cruise">>,
     <<"cruise", "landing">>, <<"landing", "onGround">>}

\* C3: over every sequence of commands and ticks the mode changes only
\* along onGround -> takeOff, takeOff -> cruise, cruise -> landing and
\* landing -> onGround: every two successive distinct modes form one of
\* these edges.
C3_ModeEdgesOnly ==
    \A i \in 1..(Len(modeLog) - 1) : <<modeLog[i], modeLog[i + 1]>> \in ModeEdges

\* C4: a tick that starts with crashed = true changes no field of the
\* vehicle state.
C4_CrashedTickChangesNothing ==
    op = "tick" /\ prev.state.crashed => state = prev.state

\* C4 witness: a tick has run on a crashed vehicle.
C4_TickWhileCrashed == op = "tick" /\ prev.state.crashed /\ state.crashed

BeginsNewFlight ==
    op = "startFlight" /\ Len(prev.state.route) >= 2 /\ ~prev.state.flightStarted

JamCheckDistance ==
    computeDistance(
        BeforeJam(prev.state, prev.altErrorIntegral, prev.lastAltError, 0).s.position,
        Val(prev.state.jamZone).center)

\* The last tick made its jam check with a zone active and the vehicle
\* closer to the zone centre than 10% of the zone radius.
JamCheckInCore ==
    /\ op = "tick" /\ ~threw /\ ~prev.state.crashed
    /\ ~IsNull(prev.state.jamZone)
    /\ Bind(JamCheckDistance, LAMBDA dJam :
            dJam < Val(prev.state.jamZone).radius
            /\ 10 * dJam < Val(prev.state.jamZone).radius)

\* C6: in any mode, when a jam zone is active and at the jam check of a
\* tick the distance to the zone centre is below 10% of the zone radius,
\* crashed is true at the end of that tick.
C6_JamCrashInAnyMode == JamCheckInCore => state.crashed

\* C6 witness: a tick has crashed a vehicle that was on the ground and not
\* flight-active, at the centre of a jam zone.
C6_CrashedOnGround ==
    /\ JamCheckInCore
    /\ prev.state.mode = "onGround" /\ ~prev.state.flightStarted
    /\ state.crashed

\* C7: in every reachable state 0 <= waypointIndex <= route.length.
C7_WaypointIndexInRange ==
    0 <= state.waypointIndex /\ state.waypointIndex <= Len(state.route)

\* C8: no tick is fatal: no firing of the tick driver ends in an exception
\* from reading route[waypointIndex].
C8_NoTickThrows == ~threw

\* C9: startFlight while the stored route has fewer than 2 points changes
\* no field of the vehicle state and neither PID term.
C9_ShortRouteRejected ==
    op = "startFlight" /\ Len(prev.state.route) < 2 => core = prev

\* C9 witness: startFlight has been called with a one-point route stored.
C9_StartWithOnePoint == op = "startFlight" /\ Len(prev.state.route) = 1

\* C10: land while not flight-active, takeOff while flight-active and hover
\* while not flight-active each leave every field of the vehicle state
\* unchanged.
C10_InvalidCommandRejected ==
    \/ op = "land" /\ ~prev.state.flightStarted
    \/ op = "takeOff" /\ prev.state.flightStarted
    \/ op = "hover" /\ ~prev.state.flightStarted
    => state = prev.state

\* C10 witness: takeOff has been called on a vehicle in flight that had
\* already left the ground.
C10_TakeOffInFlight ==
    op = "takeOff" /\ prev.state.flightStarted /\ prev.state.altitude > 0

\* C11: the reset command yields the freshly constructed initial state in
\* every field.
C11_ResetYieldsInitialState == op = "reset" => state = InitialState

\* C12: stopFlight sets flight-active to false, the route to empty and
\* waypointIndex to 0 and changes nothing else, the PID memory included.
C12_StopFlightFrame ==
    op = "stopFlight" =>
        /\ ~state.flightStarted /\ state.route = <<>> /\ state.waypointIndex = 0
        /\ \A f \in DOMAIN state \ {"flightStarted", "route", "waypointIndex", "aliased"} :
               state[f] = prev.state[f]
        /\ altErrorIntegral = prev.altErrorIntegral
        /\ lastAltError = prev.lastAltError

\* C12 witness: stopFlight has acted on a vehicle in flight on a route.
C12_StoppedInFlight ==
    /\ op = "stopFlight"
    /\ prev.state.flightStarted /\ prev.state.mode = "takeOff"
    /\ Len(prev.state.route) = 2 /\ prev.state.waypointIndex = 1

\* f is r with some elements left out, the order kept.
RECURSIVE IsSubsequence(_, _)
IsSubsequence(f, r) ==
    IF f = <<>> THEN TRUE
    ELSE IF r = <<>> THEN FALSE
    ELSE IF Head(f) = Head(r) THEN IsSubsequence(Tail(f), Tail(r))
    ELSE IsSubsequence(f, Tail(r))

\* C13: for every input sequence filterRoute returns an order-preserving
\* subsequence that keeps the first point and in which no two consecutive
\* points are closer than 5 m.  The stored route after setRoute(r) is
\* filterRoute(r).
C13_FilteredRouteSpacing ==
    op = "setRoute" =>
        /\ state.route = filterRoute(Val(arg))
        /\ IsSubsequence(state.route, Val(arg))
        /\ (Val(arg) # <<>> => state.route # <<>> /\ state.route[1] = Val(arg)[1])
        /\ \A i \in 1..(Len(state.route) - 1) :
               ~(computeDistance(state.route[i + 1], state.route[i]) < FilterSpacing)

\* C13 witness: setRoute has filtered a three-point route down to two
\* points, dropping the middle one.
C13_DroppedMiddlePoint ==
    /\ op = "setRoute" /\ Len(Val(arg)) = 3
    /\ state.route = <<Val(arg)[1], Val(arg)[3]>>
    /\ Val(arg)[2] # Val(arg)[1] /\ Val(arg)[2] # Val(arg)[3]

\* C14: filterRoute(filterRoute(r)) = filterRoute(r) for every input r, and
\* startFlight's re-filtering after setRoute leaves the stored route
\* unchanged.
C14_FilterIdempotent ==
    /\ op = "setRoute" =>
           /\ state.route = filterRoute(Val(arg))
           /\ filterRoute(state.route) = state.route
    /\ op = "startFlight" => state.route = prev.state.route

\* C14 witness: startFlight has re-filtered a stored route of two points
\* and started the flight.
C14_StartedOnFilteredRoute ==
    /\ op = "startFlight" /\ Len(prev.state.route) >= 2
    /\ ~prev.state.flightStarted /\ state.flightStarted

\* C15: over every tick and every command batteryLevel never increases.
C15_BatteryNeverIncreases == state.batteryLevel <= prev.state.batteryLevel

\* C15 witness: a tick under load has drained the battery.
C15_BatteryDrained ==
    op = "tick" /\ prev.state.flightStarted /\ state.batteryLevel < prev.state.batteryLevel

\* C16: at the end of every tick, in every mode and with or without an
\* active jam zone, altitude >= 0.
C16_AltitudeNonNegative == op = "tick" => state.altitude >= 0

\* C18: after every tick the PID integral term is in [-10, 10],
\* batteryLevel is in [0, 100] and batteryTemperature is in [30, 60].
C18_RangeClamps ==
    op = "tick" =>
        /\ -maxIntegral <= altErrorIntegral /\ altErrorIntegral <= maxIntegral
        /\ 0 <= state.batteryLevel /\ state.batteryLevel <= BatteryFull
        /\ TempMin <= state.batteryTemperature /\ state.batteryTemperature <= TempMax

\* C18 witness: a tick has accumulated the integral term beyond its limit
\* and left it at the limit.
C18_IntegralAtLimit ==
    /\ op = "tick" /\ ~prev.state.crashed /\ ~threw
    /\ prev.altErrorIntegral = maxIntegral
    /\ prev.state.targetAltitude > prev.state.altitude
    /\ altErrorIntegral = maxIntegral

\* The last tick ran to its end: the vehicle was not crashed at its start
\* and no exception ended it.
TickRan == op = "tick" /\ ~prev.state.crashed /\ ~threw

\* The last tick made its jam check with the vehicle inside an active zone.
JamCheckInZone ==
    /\ TickRan /\ ~IsNull(prev.state.jamZone)
    /\ JamCheckDistance < Val(prev.state.jamZone).radius

GpsInRange == 0 <= state.gpsQuality /\ state.gpsQuality <= GpsFull

GpsDegraded ==
    GpsFloorJam <= state.gpsQuality /\ state.gpsQuality <= prev.state.gpsQuality

GpsIdle == GpsFloorIdle <= state.gpsQuality /\ state.gpsQuality <= GpsFull

ModeAtCheck == Navigator(prev.state).mode

\* The last tick made its mode check in landing at an altitude of at most
\* 1 m.
LandingContact == TickRan /\ prev.state.altitude <= 1000 /\ ModeAtCheck = "landing"

\* C19 as stated: in a tick where the mode is landing and altitude <= 1 m,
\* an engine speed of at most 8000 rpm makes the vehicle onGround with
\* crashed false and flight-active cleared; otherwise crashed becomes true
\* and the mode does not become onGround.
C19_GroundContact ==
    LandingContact =>
        IF prev.state.engineRPM <= CrashRPM
        THEN state.mode = "onGround" /\ ~state.crashed /\ ~state.flightStarted
        ELSE state.crashed /\ state.mode # "onGround"

\* C19 amended: as stated, except that after a soft ground contact crashed
\* is true exactly when the jam check of the same tick found the vehicle
\* within 10% of the zone radius of the zone centre.
C19_GroundContactUnlessJammed ==
    LandingContact =>
        IF prev.state.engineRPM <= CrashRPM
        THEN /\ state.mode = "onGround" /\ ~state.flightStarted
             /\ state.crashed <=> JamCheckInCore
        ELSE state.crashed /\ state.mode # "onGround"

\* C19 witness: ground contact at more than 8000 rpm has crashed the
\* vehicle, which stays in landing.
C19_HardLanding ==
    /\ LandingContact /\ prev.state.engineRPM > CrashRPM
    /\ state.crashed /\ state.mode = "landing"

\* C20: a tick whose mode check finds takeOff ends in cruise exactly when
\* altitude >= 95% of the cruise altitude at that check, the integral term
\* then being reset to 0 before the tick's own accumulation; no tick enters
\* cruise otherwise.
C20_CruiseAtNinetyFivePercent ==
    /\ TickRan /\ ModeAtCheck = "takeOff" =>
           /\ state.mode = "cruise"
                  <=> 100 * prev.state.altitude >= 95 * prev.state.cruiseAltitude
           /\ state.mode = "cruise" =>
                  altErrorIntegral =
                      clamp(RDiv((state.targetAltitude - prev.state.altitude) * dt, 1000),
                            -maxIntegral, maxIntegral)
    /\ op = "tick" /\ state.mode = "cruise" /\ prev.state.mode # "cruise" =>
           TickRan /\ ModeAtCheck = "takeOff"

\* C20 witness: a tick has switched takeOff to cruise with the integral
\* term at its limit before the tick and below it after.
C20_SwitchedToCruise ==
    /\ TickRan /\ prev.state.mode = "takeOff" /\ state.mode = "cruise"
    /\ prev.altErrorIntegral = maxIntegral /\ altErrorIntegral < maxIntegral

\* C21: immediately after a startFlight that begins a flight (route of at
\* least 2 points, not flight-active) or an accepted takeOff, issued in
\* onGround, mode = takeOff and targetAltitude = cruiseAltitude.
C21_TakeoffTargetsCruise ==
    \/ /\ op = "startFlight" /\ Len(prev.state.route) >= 2
       /\ ~prev.state.flightStarted /\ prev.state.mode = "onGround"
    \/ /\ op = "takeOff"
       /\ ~prev.state.flightStarted /\ prev.state.mode = "onGround"
    => state.mode = "takeOff" /\ state.targetAltitude = state.cruiseAltitude

\* The last tick ran the waypoint sequencing and found the current waypoint
\* closer than 10 m.
WaypointReached ==
    /\ TickRan /\ NavActive(prev.state) /\ prev.state.mode # "landing"
    /\ computeDistance(prev.state.position, WP(prev.state, prev.state.waypointIndex))
           < ReachRadius

\* The waypoint reached was the last one of the route.
FinalWaypoint == prev.state.waypointIndex + 1 >= Len(prev.state.route)

\* The repeat-mission branch applies.
Repeats == prev.state.repeatMission /\ Len(prev.state.route) > 1

\* The waypoint the horizontal block of the last tick steered toward.
SteeringTarget == Sequencing(prev.state).tw

\* C22: in a tick whose sequencing finds the current waypoint closer than
\* 10 m (the repeat-mission branch apart), waypointIndex advances by exactly
\* 1; if it thereby reaches route.length the mode becomes landing with
\* targetAltitude = 0 and the final waypoint as target, otherwise the mode
\* is unchanged and the next waypoint becomes the target.
C22_WaypointSequencing ==
    WaypointReached /\ ~(FinalWaypoint /\ Repeats) =>
        /\ state.waypointIndex = prev.state.waypointIndex + 1
        /\ IF FinalWaypoint
           THEN /\ ModeAtCheck = "landing"
                /\ state.mode \in {"landing", "onGround"}
                /\ state.targetAltitude = 0
                /\ SteeringTarget = prev.state.route[Len(prev.state.route)]
           ELSE /\ ModeAtCheck = prev.state.mode
                /\ SteeringTarget = WP(prev.state, prev.state.waypointIndex + 1)

\* C22 witness: the third point of a three-point route was reached with
\* repeat off and the tick ended in landing.
C22_LandingInitiated ==
    /\ WaypointReached /\ FinalWaypoint /\ ~Repeats
    /\ Len(prev.state.route) = 3 /\ state.mode = "landing"

\* The route and index a repeat of the mission installs, and the mode left
\* alone: the segment from the position at the sequencing to home, or to
\* the first point of the route when home is unset; at the end of the tick
\* the first point is the position the tick moved the vehicle to.
RepeatInstalled ==
    /\ Sequencing(prev.state).s.route =
           <<prev.state.position,
             IF ~IsNull(prev.state.homePosition)
             THEN Val(prev.state.homePosition) ELSE prev.state.route[1]>>
    /\ Len(state.route) = 2
    /\ state.route[1] = state.position
    /\ ~IsNull(prev.state.homePosition) => state.route[2] = Val(prev.state.homePosition)
    /\ state.waypointIndex = 1
    /\ ModeAtCheck = prev.state.mode
    /\ ModeAtCheck # "landing"

\* The sequencing of the last tick switched the mode to landing.
LandingInitiated == TickRan /\ prev.state.mode # "landing" /\ ModeAtCheck = "landing"

\* C23 as stated: when the final waypoint is consumed with repeat-mission
\* set and a route of more than one point, the route becomes the two-point
\* segment from the current position to home (or the first route point),
\* waypointIndex becomes 1 and the mode does not become landing; and no
\* tick that starts with repeat-mission set initiates a landing.
C23_RepeatNeverLands ==
    /\ WaypointReached /\ FinalWaypoint /\ Repeats => RepeatInstalled
    /\ op = "tick" /\ prev.state.repeatMission => ~LandingInitiated

\* C23 amended: the same, with the last part confined to ticks that start
\* with a route of more than one point.
C23_RepeatNeverLandsOnLongerRoute ==
    /\ WaypointReached /\ FinalWaypoint /\ Repeats => RepeatInstalled
    /\ op = "tick" /\ prev.state.repeatMission /\ Len(prev.state.route) > 1
           => ~LandingInitiated

\* C23 witness: the third point of a three-point route was consumed with
\* repeat-mission set and the route replaced.
C23_MissionRepeated ==
    /\ WaypointReached /\ FinalWaypoint /\ Repeats
    /\ Len(prev.state.route) = 3 /\ Len(state.route) = 2 /\ state.waypointIndex = 1

\* The desired speed the navigator computes for a target n north of the
\* vehicle, and the distance of that target.
DistanceAtOffset(n) == computeDistance(state.position, North(state.position, n))

SpeedAtOffset(n) ==
    DesiredSpeed(state.horizontalSpeed, state.position, North(state.position, n),
                 DistanceAtOffset(n))

\* C24: for the base speed of the state, the desired speed is non-decreasing
\* in the distance to the target (distances below 10 m included), is never
\* below minSpeed, and equals the base speed whenever the distance exceeds
\* brakingDistance + 10 m.
C24_BrakingMonotone ==
    \A n1 \in BrakeOffsets :
        /\ \A n2 \in BrakeOffsets : n1 <= n2 => SpeedAtOffset(n1) <= SpeedAtOffset(n2)
        /\ SpeedAtOffset(n1) >= minSpeed
        /\ DistanceAtOffset(n1) > brakingDistanceOf(state.horizontalSpeed) + safetyMargin
               => SpeedAtOffset(n1) = state.horizontalSpeed

\* Altitude lies within 1 m of the target.
NearTarget == Abs(state.targetAltitude - state.altitude) <= 1000

\* C25: with no wind and no jam zone, after a step of targetAltitude (0 ->
\* 100 m by takeOff, 5 m up or down in cruise) altitude is within 1 m of the
\* target from a bounded number of ticks on: TakeoffSettle ticks after
\* takeOff, StepSettle ticks after the 5 m step.
C25_AltitudeSettles ==
    /\ cmds = 1 /\ ticks >= TakeoffSettle => NearTarget
    /\ cmds = 2 /\ ticks >= StepAt + StepSettle => NearTarget

\* C25 witness: the target was stepped from 100 m to 105 m, altitude overshot
\* it and is within 1 m of it StepSettle ticks after the step.
C25_SettledAfterStep ==
    /\ cmds = 2 /\ ticks >= StepAt + StepSettle /\ op = "tick"
    /\ state.targetAltitude = DefaultCruiseAltitude + AltNudge
    /\ state.altitude > state.targetAltitude /\ NearTarget

\* C26: once homePosition is set, no command other than reset and no tick
\* changes its value.
C26_HomeSetOnce ==
    ~IsNull(prev.state.homePosition) /\ op # "reset"
        => state.homePosition = prev.state.homePosition

\* C27: flightTime and totalDistance never decrease across a tick or a
\* command, except that a startFlight which begins a new flight sets both to
\* 0; flightTime changes only in ticks that end flight-active, by dt.
C27_CountersCumulative ==
    /\ BeginsNewFlight => state.flightTime = 0 /\ state.totalDistance = 0
    /\ ~BeginsNewFlight =>
           /\ state.flightTime >= prev.state.flightTime
           /\ state.totalDistance >= prev.state.totalDistance
           /\ state.flightTime =
                  IF TickRan /\ state.flightStarted
                  THEN prev.state.flightTime + dt ELSE prev.state.flightTime

\* C27 witness: a startFlight began a new flight and cleared counters that
\* an earlier flight had raised.
C27_CountersRestarted ==
    /\ BeginsNewFlight
    /\ prev.state.flightTime > 0 /\ prev.state.totalDistance > 0
    /\ state.flightTime = 0 /\ state.totalDistance = 0

\* C28: every firing of the tick driver hands exactly one record to
\* sendFlightData after its physics update, crashed and grounded vehicles
\* included, and the record's GPS label and satellite count agree (Good
\* with 10, Fair with 6, Poor with 2).
C28_OneRecordPerTick ==
    /\ op = "tick" =>
           /\ ~IsNull(sent)
           /\ Val(sent).altitude = state.altitude
           /\ Val(sent).position = state.position
    /\ ~IsNull(sent) =>
           /\ op = "tick"
           /\ <<Val(sent).gpsSignal, Val(sent).satellites>>
                  \in {<<"Good", 10>>, <<"Fair", 6>>, <<"Poor", 2>>}

\* C29: at the end of a tick in which the jam-zone check crashes the
\* vehicle, vx = 0 and vy = 0, vertical speed is negative and the
\* flight-active flag is false.
C29_JamCrashEffects ==
    JamCheckInCore =>
        /\ state.vx = 0 /\ state.vy = 0
        /\ state.verticalSpeed < 0
        /\ ~state.flightStarted

\* C30: in every reachable state any two consecutive points of the stored
\* route are at least 5 m apart.
C30_StoredRouteFiltered ==
    \A i \in 1..(Len(state.route) - 1) :
        computeDistance(state.route[i], state.route[i + 1]) >= FilterSpacing

\* brakingDistance + safetyMargin for the base speed of the state.
BrakingEnvelope == brakingDistanceOf(state.horizontalSpeed) + safetyMargin

\* The virtual target for a waypoint n north of the vehicle.
VirtualTargetAtOffset(n) ==
    getVirtualTarget(state.position, North(state.position, n),
                     brakingDistanceOf(state.horizontalSpeed), safetyMargin)

\* C31: when the distance from vehicle to waypoint exceeds brakingDistance +
\* safetyMargin, getVirtualTarget returns a point between them at distance
\* brakingDistance + safetyMargin from the waypoint (to within 5 cm); when
\* it does not, the waypoint itself.
C31_VirtualTargetShortOfWaypoint ==
    \A n \in BrakeOffsets :
        IF DistanceAtOffset(n) > BrakingEnvelope
        THEN /\ VirtualTargetAtOffset(n).lng = state.position.lng
             /\ VirtualTargetAtOffset(n).lat \in state.position.lat..(state.position.lat + n)
             /\ Abs(computeDistance(VirtualTargetAtOffset(n), North(state.position, n))
                    - BrakingEnvelope) <= 5
        ELSE VirtualTargetAtOffset(n) = North(state.position, n)

\* Flights on a long route under changing wind, with and without a jam zone.
WindMaxCmds == 4
WindMaxTicks == 3

NextWind ==
    \/ cmds = 0 /\ \E r \in {LongRoute, RouteShort} : SetRoute(r)
    \/ cmds = 1 /\ StartFlight
    \/ cmds >= 2 /\ cmds < WindMaxCmds /\ \E w \in Winds : UpdateWind(w)
    \/ cmds >= 2 /\ cmds < WindMaxCmds /\ \E z \in JamZones : SetJamZone(z)
    \/ cmds >= 2 /\ cmds < WindMaxCmds /\ ClearJamZone
    \/ cmds >= 2 /\ ticks < WindMaxTicks
                 /\ \E r1 \in DisturbanceDraws, r2 \in NoiseDraws : Tick(r1, r2)

SpecWind == Init /\ [][NextWind]_vars

\* The wind vectors of the second run: calm, and the winds of the commands.
Calm == [speed |-> 0, direction |-> 0]
OtherWinds == Winds \cup {Calm}

\* The state after one tick from the current state under wind w, with the
\* random draws r1 and r2.
TickUnderWind(w, r1, r2) ==
    updateFlightPhysics([state EXCEPT !.wind = w],
                        altErrorIntegral, lastAltError, r1, r2).s

\* The next tick runs the navigator.
NavigatorWillRun == ~state.crashed /\ NavActive(state) /\ ~NavThrows(state)

\* Two ticks from the current state with the same draws, under the wind of
\* the state and under any other wind, store the same (vx, vy).
SameVelocityUnderAnyWind ==
    \A r1 \in Rand, r2 \in Rand, w \in OtherWinds :
        /\ TickUnderWind(w, r1, r2).vx = TickUnderWind(state.wind, r1, r2).vx
        /\ TickUnderWind(w, r1, r2).vy = TickUnderWind(state.wind, r1, r2).vy

\* C32: two runs from the same state with the same random draws but
\* different wind vectors store the same horizontal velocity (vx, vy)
\* after one navigator tick.
C32_WindNotStoredInVelocity == NavigatorWillRun => SameVelocityUnderAnyWind

\* C32, amended: the same, for ticks with no jam zone set.
C32_WindNotStoredInVelocityOutsideJam ==
    NavigatorWillRun /\ IsNull(state.jamZone) => SameVelocityUnderAnyWind

\* A navigator tick under wind and without jam zone has run; in calm air it
\* would have ended at another position with the same velocity.
C32_WindShiftedPosition ==
    /\ TickRan
    /\ NavActive(prev.state)
    /\ IsNull(prev.state.jamZone)
    /\ prev.state.wind.speed > 0
    /\ \E calm \in {updateFlightPhysics([prev.state EXCEPT !.wind = Calm],
                                        prev.altErrorIntegral, prev.lastAltError, 0, 0).s} :
           /\ calm.position # state.position
           /\ calm.vx = state.vx
           /\ calm.vy = state.vy
           /\ state.vx # 0 \/ state.vy # 0

\* A jam zone far from the vehicle: 100 m around a point 11 km north.
JamFar == [center |-> North(StartPosition, 1000000), radius |-> 10000]

\* GPS recovery: a zone around the vehicle degrades the GPS for up to
\* DegradeTicks ticks, then the zone is moved away; a single-point route and
\* takeOff may follow until tick SetupTicks, and the ticks run on.
DegradeTicks == 2
SetupTicks == 4
RecoverTicks == 180
RecoveryMaxCmds == 5
RecoveryMaxTicks == 190

NextRecovery ==
    \/ cmds = 0 /\ SetJamZone(JamWide)
    \/ cmds = 1 /\ SetJamZone(JamFar)
    \/ cmds >= 2 /\ cmds < RecoveryMaxCmds /\ ticks <= SetupTicks /\ SetRoute(RouteOne)
    \/ cmds >= 2 /\ cmds < RecoveryMaxCmds /\ ticks <= SetupTicks /\ TakeOff
    \/ cmds >= 1 /\ ticks < RecoveryMaxTicks /\ (cmds = 1 => ticks < DegradeTicks)
                 /\ \E r1 \in DisturbanceDraws, r2 \in NoiseDraws : Tick(r1, r2)

SpecRecovery == Init /\ [][NextRecovery]_vars

\* A jam zone was set through the last tick and the vehicle was outside it
\* and not crashed before and after the tick.
TickOutsideZone ==
    /\ op = "tick"
    /\ ~prev.state.crashed /\ ~state.crashed
    /\ ~IsNull(prev.state.jamZone)
    /\ computeDistance(prev.state.position, Val(prev.state.jamZone).center)
           >= Val(prev.state.jamZone).radius
    /\ computeDistance(state.position, Val(prev.state.jamZone).center)
           >= Val(prev.state.jamZone).radius

\* The vehicle has been outside the zone, not crashed, for RecoverTicks
\* ticks or more.
RecoveryDue ==
    cmds >= 2 /\ ~state.crashed /\ ticks >= SetupTicks + RecoverTicks

\* C33: while a jam zone is set and the vehicle is outside it and not
\* crashed, every tick raises gpsQuality by 0.005, capped at 1, and
\* gpsQuality reaches 1 (from the jam floor 0.1: within 180 ticks) and
\* stays there.
C33_GpsRecovers ==
    /\ TickOutsideZone =>
           state.gpsQuality = Min(prev.state.gpsQuality + GpsRecovery, GpsFull)
    /\ RecoveryDue => state.gpsQuality = GpsFull

\* The same for the ticks that ran to their end.
GpsRecoversOnRunTicks ==
    /\ TickOutsideZone /\ TickRan =>
           state.gpsQuality = Min(prev.state.gpsQuality + GpsRecovery, GpsFull)
    /\ RecoveryDue /\ ~NavThrows(state) => state.gpsQuality = GpsFull

\* C34: in every reachable state, mode onGround implies that flightStarted
\* is false.
C34_GroundedNotActive == state.mode = "onGround" => ~state.flightStarted

\* A tick has landed a vehicle that was in flight.
C34_LandedByTick ==
    /\ TickRan
    /\ prev.state.flightStarted
    /\ prev.state.mode # "onGround"
    /\ state.mode = "onGround"
    /\ ~state.flightStarted

\* Descents with manual altitude nudges: takeOff, a climb of ClimbTicks
\* ticks, then land, hover, setRepeat, takeOff and the altitude buttons in
\* any order, with ticks in between.
ClimbTicks == 10
DescentMaxCmds == 4
DescentMaxTicks == 12

NextDescent ==
    \/ cmds = 0 /\ TakeOff
    \/ cmds >= 1 /\ ticks < DescentMaxTicks /\ (cmds > 1 => ticks >= ClimbTicks)
                 /\ \E r1 \in DisturbanceDraws, r2 \in NoiseDraws : Tick(r1, r2)
    \/ cmds >= 1 /\ cmds < DescentMaxCmds /\ ticks >= ClimbTicks /\ TakeOff
    \/ cmds >= 1 /\ cmds < DescentMaxCmds /\ ticks >= ClimbTicks /\ Land
    \/ cmds >= 1 /\ cmds < DescentMaxCmds /\ ticks >= ClimbTicks /\ Hover
    \/ cmds >= 1 /\ cmds < DescentMaxCmds /\ ticks >= ClimbTicks /\ SetRepeat(TRUE)
    \/ cmds >= 1 /\ cmds < DescentMaxCmds /\ ticks >= ClimbTicks /\ AltUp
    \/ cmds >= 1 /\ cmds < DescentMaxCmds /\ ticks >= ClimbTicks /\ AltDown

SpecDescent == Init /\ [][NextDescent]_vars

\* The commands of the core (FlightEmulation).
CoreCommands ==
    {"startFlight", "stopFlight", "setRoute", "setHome", "takeOff", "land", "hover",
     "updateParameters", "updateWind", "setJamZone", "clearJamZone", "setRepeat"}

\* C35: whenever mode is landing at the end of a tick or of a core command,
\* targetAltitude is 0.
C35_DescendingTargetsGround ==
    (op = "tick" \/ op \in CoreCommands) /\ state.mode = "landing"
        => state.targetAltitude = 0

\* C35, amended: mode landing implies targetAltitude 0 at the end of every
\* tick that ran to its end and of every accepted land command; no other
\* core command changes targetAltitude while the mode is and stays landing.
C35_DescendingTickTargetsGround ==
    /\ TickRan /\ state.mode = "landing" => state.targetAltitude = 0
    /\ op = "land" /\ prev.state.flightStarted
           => state.mode = "landing" /\ state.targetAltitude = 0
    /\ op \in CoreCommands \ {"land"} /\ prev.state.mode = "landing" /\ state.mode = "landing"
           => state.targetAltitude = prev.state.targetAltitude

\* A tick in landing mode has brought a nudged targetAltitude back to 0.
C35_NudgeOverridden ==
    /\ TickRan
    /\ prev.state.mode = "landing"
    /\ prev.state.targetAltitude > 0
    /\ state.mode = "landing"
    /\ state.targetAltitude = 0

\* The last step was a tick that began with hoverMode true and no jam zone.
HoverTick == op = "tick" /\ prev.state.hoverMode /\ IsNull(prev.state.jamZone)

\* The last step left position, velocity, waypointIndex and route as they
\* were.
NavigationFrozen ==
    /\ state.position = prev.state.position
    /\ state.vx = prev.state.vx
    /\ state.vy = prev.state.vy
    /\ state.waypointIndex = prev.state.waypointIndex
    /\ state.route = prev.state.route
    /\ state.aliased = prev.state.aliased

\* The last step cleared hoverMode.
HoverCleared == prev.state.hoverMode /\ ~state.hoverMode

\* C36: a tick with hoverMode true and no jam zone leaves position, vx, vy,
\* waypointIndex and route unchanged and does not switch the mode to
\* landing; hoverMode stays true until startFlight, takeOff or an accepted
\* land clears it.
C36_HoverFreezesNavigation ==
    /\ HoverTick => /\ NavigationFrozen
                    /\ state.mode = "landing" => prev.state.mode = "landing"
    /\ HoverCleared =>
           \/ op = "startFlight" /\ Len(prev.state.route) >= 2
           \/ op = "takeOff" /\ ~prev.state.flightStarted
           \/ op = "land" /\ prev.state.flightStarted

\* C36, amended: the same, with the reset handler as a fourth way of
\* clearing hoverMode.
C36_HoverFreezesNavigationUntilReset ==
    /\ HoverTick => /\ NavigationFrozen
                    /\ state.mode = "landing" => prev.state.mode = "landing"
    /\ HoverCleared =>
           \/ op = "startFlight" /\ Len(prev.state.route) >= 2
           \/ op = "takeOff" /\ ~prev.state.flightStarted
           \/ op = "land" /\ prev.state.flightStarted
           \/ op = "reset"

\* A tick has run in hover on a started flight whose next waypoint the
\* navigator would have steered for.
C36_HoveredOnRoute ==
    /\ HoverTick /\ TickRan
    /\ prev.state.flightStarted
    /\ Len(prev.state.route) >= 2
    /\ prev.state.waypointIndex < Len(prev.state.route)
    /\ state.hoverMode
    /\ state.position = prev.state.position

\* startFlight during a flight: routes with and without close points are
\* set before or in flight, with takeOff, hover and ticks in between.
RestartMaxCmds == 4
RestartMaxTicks == 2

NextRestart ==
    \/ ticks < RestartMaxTicks /\ \E r1 \in DisturbanceDraws, r2 \in NoiseDraws : Tick(r1, r2)
    \/ cmds < RestartMaxCmds /\ \E r \in Routes : SetRoute(r)
    \/ cmds < RestartMaxCmds /\ StartFlight
    \/ cmds < RestartMaxCmds /\ TakeOff
    \/ cmds < RestartMaxCmds /\ Hover

SpecRestart == Init /\ [][NextRestart]_vars

\* The last step was startFlight, called during a flight with a route of at
\* least two points.
InFlightStart ==
    op = "startFlight" /\ prev.state.flightStarted /\ Len(prev.state.route) >= 2

\* C37: startFlight called while the flight is active, with a route of at
\* least 2 points, leaves position, velocity, waypointIndex, mode, crashed,
\* homePosition, flightTime and totalDistance (and every other field) as
\* they were; it re-initialises the PID memory, clears hoverMode and
\* re-filters the route.
C37_InFlightStartKeepsFlight ==
    InFlightStart =>
        /\ \A f \in DOMAIN state \ {"hoverMode", "route", "aliased"} :
               state[f] = prev.state[f]
        /\ state.flightStarted
        /\ ~state.hoverMode
        /\ state.route = filterRoute(prev.state.route)
        /\ altErrorIntegral = 0
        /\ lastAltError = state.targetAltitude - state.altitude

\* startFlight was called in hover during a flight under way: it cleared
\* the PID memory and hoverMode.
C37_RestartedInHover ==
    /\ InFlightStart
    /\ prev.state.hoverMode
    /\ prev.altErrorIntegral # 0
    /\ altErrorIntegral = 0
    /\ state.mode = "takeOff"
    /\ state.altitude > 0

\* A hard landing and what follows: a flight at full speed on the long
\* route, land at tick LandAt (the descent ends with the engine above the
\* crash threshold), then commands on the crashed vehicle, one tick at most
\* after each.
LandAt == 9
HardMaxCmds == 7
HardMaxTicks == 80

NextHardLanding ==
    \/ cmds = 0 /\ SetRoute(LongRoute)
    \/ cmds = 1 /\ \E v \in FullSpeed : SpeedSlider(v)
    \/ cmds = 2 /\ StartFlight
    \/ cmds = 3 /\ ticks = LandAt /\ Land
    \/ cmds >= 3 /\ ticks < HardMaxTicks /\ (cmds = 3 => ticks < LandAt)
                 /\ (state.crashed => op # "tick")
                 /\ \E r1 \in DisturbanceDraws, r2 \in NoiseDraws : Tick(r1, r2)
    \/ state.crashed /\ cmds < HardMaxCmds /\ StartFlight
    \/ state.crashed /\ cmds < HardMaxCmds /\ TakeOff
    \/ state.crashed /\ cmds < HardMaxCmds /\ Land
    \/ state.crashed /\ cmds < HardMaxCmds /\ Hover
    \/ state.crashed /\ cmds < HardMaxCmds /\ StopFlight
    \/ state.crashed /\ cmds < HardMaxCmds /\ SetRoute(LongRoute)

SpecHardLanding == Init /\ [][NextHardLanding]_vars

\* Before the last step the vehicle was as a hard landing leaves it:
\* crashed, the flight active, the mode landing.
WasHardLanded ==
    prev.state.crashed /\ prev.state.flightStarted /\ prev.state.mode = "landing"

\* C38: startFlight clears the crashed flag exactly when it is called with
\* a route of at least 2 points while flightStarted is false; startFlight,
\* takeOff, land and hover leave a hard-landed vehicle (crashed,
\* flightStarted true, mode landing) hard-landed, so no sequence of them
\* makes crashed false again.
C38_HardLandingCrashSticks ==
    /\ op = "startFlight" =>
           (state.crashed <=> prev.state.crashed /\ ~BeginsNewFlight)
    /\ WasHardLanded /\ op \in {"startFlight", "takeOff", "land", "hover"} =>
           state.crashed /\ state.flightStarted /\ state.mode = "landing"

\* startFlight was called with a valid route on a vehicle crashed by a hard
\* landing, and the vehicle is still crashed.
C38_StartFlightAfterHardLanding ==
    /\ op = "startFlight"
    /\ WasHardLanded
    /\ Len(prev.state.route) >= 2
    /\ prev.state.altitude > 0
    /\ state.crashed

\* The last tick ran with no wind and no jam zone.
CalmTick == TickRan /\ prev.state.wind.speed = 0 /\ IsNull(prev.state.jamZone)

\* The vehicle is on the ground and moves in no direction.
AtRest ==
    /\ state.altitude = 0
    /\ state.verticalSpeed = 0
    /\ state.vx = 0
    /\ state.vy = 0

\* C39: at the end of a tick that goes from landing to onGround, with no
\* wind and no jam zone, altitude, vertical speed and (vx, vy) are 0, and
\* they are 0 after every later tick that begins and ends onGround.
C39_LandedAtRest ==
    /\ CalmTick /\ ModeAtCheck = "landing" /\ state.mode = "onGround" => AtRest
    /\ CalmTick /\ prev.state.mode = "onGround" /\ state.mode = "onGround" => AtRest

====
